---- MODULE Spec2Model ----
(***************************************************************************)
(* State-machine model of the rcmp123 marketplace backend:                 *)
(*   - src/app.py                  the flat backend (checkout + webhook)   *)
(*   - src/rcmp123/backend/app.py  the fee-splitting ("Connect") backend   *)
(*   - src/token.py, src/forgot_password.py   password-reset tokens        *)
(*   - src/rate_limit.py           the sliding-window rate limiter         *)
(* Both backends open the same database file (DATABASE_URL is the same     *)
(* relative sqlite path), so a request may be served by either of them     *)
(* over one shared store of users and listings.  The tables are made by    *)
(* the backend that starts first on a new file (create_all leaves existing *)
(* tables alone): table user has the column stripe_account_id only when    *)
(* that was the Connect backend.  The reset router of                      *)
(* src/forgot_password.py is mounted on neither app.                       *)
(***************************************************************************)
EXTENDS Integers, Sequences, FiniteSets, TLC

VARIABLES
  STRIPE_SECRET_KEY,      \* environment of the process ("" when unset)
  STRIPE_WEBHOOK_SECRET,  \* environment of the process ("" when unset)
  schema,                 \* the backend whose create_all made the tables
  users,                  \* table user: row id -> row
  listings,               \* table listing: row id -> row
  mailbox,                \* reset e-mails handed to the SMTP server
  clock,                  \* wall clock, in ticks of 1/TicksPerSecond s
  call,                   \* the request handled by the last step
  response,               \* its HTTP answer
  request,                \* what it passed to stripe.checkout.Session.create
  steps,                  \* the handler stages it went through
  attempts,               \* rate_limit.attempts: identifier -> timestamps
  history,                \* every rate_limit call so far: identifier, time, result
  inflight                \* requests being served in parallel: their local variables

vars == <<STRIPE_SECRET_KEY, STRIPE_WEBHOOK_SECRET, schema, users, listings, mailbox,
          clock, call, response, request, steps, attempts, history, inflight>>

\* The fields of the records of the model, with the scalar ones typed (a
\* field typed STRING here that holds a record is described where it is
\* built).  Records list their fields in this order throughout.
RecordFields ==
  [alg : STRING,
   allowed : BOOLEAN,
   application_fee_amount : Nat,
   backend : STRING,
   bcrypt : STRING,
   body : STRING,
   customer_email : STRING,
   destination : STRING,
   detail : STRING,
   exp : Int,
   found : BOOLEAN,
   hashed_password : STRING,
   hex : Seq(0..15),
   ip : STRING,
   kept : Seq(Nat),
   key : STRING,
   listing_id : STRING,
   metadata_listing_id : STRING,
   milli : Nat,
   notification : STRING,
   now : Nat,
   op : STRING,
   payload : STRING,
   pc : STRING,
   present : BOOLEAN,
   price : STRING,
   seller_id : Nat,
   sent : BOOLEAN,
   sent_at : Nat,
   sig_header : STRING,
   sold : BOOLEAN,
   status : Nat,
   stripe_account_id : STRING,
   sub : STRING,
   to : STRING,
   token : STRING,
   type : STRING,
   unit_amount : Nat,
   username : STRING,
   wrote : BOOLEAN]

(***************************************************************************)
(* Bounds of the exploration                                               *)
(***************************************************************************)
MaxListings == 2

\* requests that may be between two of their database statements at once
\* (each backend serves its `def` routes on a pool of threads)
MaxInFlight == 2

\* the names that register, and the names that never do
Usernames == {"alice"}
Strangers == {"bob"}
Callers == Usernames \cup Strangers
Passwords == {"pw1", "pw2"}
\* the password a name registers with in the marketplace (the other one is
\* a wrong guess at login)
Chosen == {"pw1"}
Emails == {"buyer@example.com"}

\* the two apps: src/app.py and src/rcmp123/backend/app.py
Backends == {"flat", "connect"}

NULL == "NULL"
NoKey == "NoKey"

PayoutAccounts == {NULL, "acct_X"}
SecretKeys == {"", "sk_test"}
WebhookSecrets == {"", "whsec_live"}
SigningKeys == {"whsec_live", "whsec_forged"}

(***************************************************************************)
(* IEEE-754 doubles.  Listing.price is a Python float; the amount sent to  *)
(* the processor is computed in double arithmetic.  A positive double is   *)
(* kept as its float.hex() form: hex = <<1, h1, .., h13>> and exp stand    *)
(* for 0x1.h1..h13p+exp.  Naturals are bit sequences, least significant    *)
(* bit first, because a 53-bit mantissa exceeds the checker's integers.    *)
(***************************************************************************)
MantissaBits == 53

HexBits(h) == <<h % 2, (h \div 2) % 2, (h \div 4) % 2, (h \div 8) % 2>>

RECURSIVE HexToBits(_)
\* the digits are written most significant first; the bits come out LSB first
HexToBits(hex) ==
  IF hex = <<>> THEN <<>>
  ELSE HexToBits(Tail(hex)) \o HexBits(Head(hex))

RECURSIVE BitLen(_)
BitLen(a) ==
  IF a = <<>> THEN 0
  ELSE IF a[Len(a)] = 1 THEN Len(a)
  ELSE BitLen(SubSeq(a, 1, Len(a) - 1))

Zeros(k) == IF k <= 0 THEN <<>> ELSE [i \in 1..k |-> 0]

Shl(a, k) == Zeros(k) \o a

RECURSIVE AddBits(_, _, _)
AddBits(a, b, c) ==
  IF a = <<>> /\ b = <<>> THEN (IF c = 1 THEN <<1>> ELSE <<>>)
  ELSE LET x == IF a = <<>> THEN 0 ELSE Head(a)
           y == IF b = <<>> THEN 0 ELSE Head(b)
           ta == IF a = <<>> THEN <<>> ELSE Tail(a)
           tb == IF b = <<>> THEN <<>> ELSE Tail(b)
           sum == x + y + c
       IN  <<sum % 2>> \o AddBits(ta, tb, sum \div 2)

RECURSIVE BitsToNat(_)
BitsToNat(a) == IF a = <<>> THEN 0 ELSE Head(a) + 2 * BitsToNat(Tail(a))

HasOne(a) == \E i \in 1..Len(a) : a[i] = 1

\* round a natural to MantissaBits significant bits, ties to even: the
\* rounding every double operation applies to its exact result
RoundToDouble(a) ==
  LET n == BitLen(a)
      k == n - MantissaBits
  IN  IF k <= 0 THEN SubSeq(a, 1, n)
      ELSE LET low == SubSeq(a, 1, k)
               kept == SubSeq(a, k + 1, n)
               up == low[k] = 1 /\ (HasOne(SubSeq(low, 1, k - 1)) \/ kept[1] = 1)
           IN  Zeros(k) \o (IF up THEN AddBits(kept, <<1>>, 0) ELSE kept)

\* x * 100 in double arithmetic: m * 2^(exp - 52) with m the bits returned
FloatMul100(price) ==
  LET m == HexToBits(price.hex)
  IN  RoundToDouble(AddBits(AddBits(Shl(m, 6), Shl(m, 5), 0), Shl(m, 2), 0))

\* number of fraction bits of m * 2^(exp - 52)
FracBits(price) == (MantissaBits - 1) - price.exp

\* int(x): truncation toward zero of a positive double
IntTrunc(m, s) ==
  IF s <= 0 THEN BitsToNat(Shl(m, 0 - s))
  ELSE IF s >= Len(m) THEN 0
  ELSE BitsToNat(SubSeq(m, s + 1, Len(m)))

\* round(x): Python 3 rounds a float to the nearest integer, ties to even
IntRound(m, s) ==
  IF s <= 0 THEN IntTrunc(m, s)
  ELSE LET ip == IntTrunc(m, s)
           padded == m \o Zeros(s - Len(m))
           up == padded[s] = 1 /\ (HasOne(SubSeq(padded, 1, s - 1)) \/ ip % 2 = 1)
       IN  IF up THEN ip + 1 ELSE ip

\* the prices typed into the create_listing form: milli is the decimal in
\* thousandths of a dollar, hex/exp the float the form field parses it to
Prices ==
  { [exp |-> 4, hex |-> <<1, 3,15,13,7,0,10,3,13,7,0,10,3,13>>, milli |-> 19990],
    [exp |-> 4, hex |-> <<1, 3,15,14,11,8,5,1,14,11,8,5,1,15>>, milli |-> 19995] }

\* the price listings are offered at: the one whose hundredfold is not a
\* whole number of cents in double arithmetic
Offered == {p \in Prices : p.milli = 19990}

PriceCentsTable == [p \in Prices |-> IntTrunc(FloatMul100(p), FracBits(p))]
AmountCentsTable == [p \in Prices |-> IntRound(FloatMul100(p), FracBits(p))]

\* src/app.py: price_cents = int(float(listing.price) * 100)
price_cents(price) == PriceCentsTable[price]

\* src/rcmp123/backend/app.py: amount_cents = int(round(listing.price * 100))
amount_cents(price) == AmountCentsTable[price]

PLATFORM_FEE_CENTS == 123

(***************************************************************************)
(* Data model                                                              *)
(***************************************************************************)
\* Stripe metadata values are strings; row ids are written in decimal
DecimalStrings == <<"1", "2", "3", "4", "5", "6", "7", "8", "9">>

\* str(listing.id)
str(n) == DecimalStrings[n]

IsNumeric(s) == \E n \in 1..Len(DecimalStrings) : DecimalStrings[n] = s

\* int(s) for a string int() accepts
int(s) == CHOOSE n \in 1..Len(DecimalStrings) : DecimalStrings[n] = s

UserIds == 1..Len(users)
ListingIds == 1..Len(listings)

\* identifiers a caller may name: the rows that can exist (a listing is
\* missing until it is created, a user until it registers)
FormUserIds == 1..Cardinality(Usernames)
FormListingIds == 1..MaxListings

\* passlib: pwd_context.hash / pwd_context.verify (the salt is not modelled)
hash_pw(password) == [bcrypt |-> password]
verify_pw(password, hashed) == hashed.bcrypt = password

\* select(User).where(User.username == username).first()
UserByName(username) ==
  IF \E i \in UserIds : users[i].username = username
  THEN CHOOSE i \in UserIds : users[i].username = username
  ELSE 0

Response(status, detail) == [detail |-> detail, status |-> status]

NoCheckout == [sent |-> FALSE]

(***************************************************************************)
(* Webhook notifications: a raw body and the stripe-signature header.      *)
(* A signature is the pair (signing key, signed body) it was computed      *)
(* over; stripe.Webhook.construct_event recomputes it over the payload     *)
(* received and raises on a missing header or a mismatch.                  *)
(***************************************************************************)
MetadataIds == {str(n) : n \in FormListingIds} \cup {"abc", NoKey}

\* "checkout completed" events with every kind of metadata, and events of
\* other kinds: one without a listing identifier, one naming the first listing
Bodies ==
  [listing_id : MetadataIds, type : {"checkout.session.completed"}]
    \cup [listing_id : {NoKey}, type : {"payment_intent.succeeded"}]
    \cup [listing_id : {str(1)}, type : {"checkout.session.expired"}]

NoSignature == [present |-> FALSE]
Sign(key, body) == [body |-> body, key |-> key, present |-> TRUE]

\* the body an attacker started from before changing the listing identifier
Original(body) ==
  [listing_id |-> IF body.listing_id = "1" THEN "2" ELSE "1", type |-> body.type]

\* the headers tried with a body: none, a genuine one, one made with another
\* key, and a genuine one made for the body before it was changed
Headers(b) ==
  {NoSignature} \cup {Sign(k, b) : k \in SigningKeys}
    \cup {Sign("whsec_live", Original(b))}

Notifications ==
  UNION { { [payload |-> b, sig_header |-> h] : h \in Headers(b) } : b \in Bodies }

(***************************************************************************)
(* Initial state: both tables empty, nothing handled yet                   *)
(***************************************************************************)
NoCall == [op |-> "none"]

Init ==
  /\ STRIPE_SECRET_KEY \in SecretKeys
  /\ STRIPE_WEBHOOK_SECRET \in WebhookSecrets
  /\ schema \in Backends
  /\ users = <<>>
  /\ listings = <<>>
  /\ mailbox = {}
  /\ clock = 0
  /\ call = NoCall
  /\ response = Response(0, "")
  /\ request = NoCheckout
  /\ steps = <<>>
  /\ attempts = <<>>
  /\ history = <<>>
  /\ inflight = <<>>

\* what a marketplace request leaves alone
NoRateLimit == UNCHANGED <<attempts, history>>
Config == UNCHANGED <<STRIPE_SECRET_KEY, STRIPE_WEBHOOK_SECRET, schema, clock>>
Env == Config /\ UNCHANGED inflight

\* the Connect backend selects user.stripe_account_id in every query on
\* table user; on a table made by src/app.py the query raises
\* OperationalError, which nothing catches
HasPayoutColumn == schema = "connect"

\* a sequence without its d-th element
Remove(seq, d) == [i \in 1..(Len(seq) - 1) |-> IF i < d THEN seq[i] ELSE seq[i + 1]]

\* a handler that answers without writing to the store or calling Stripe;
\* the requests still being served afterwards are `pending`
Reply(c, status, detail, st, pending) ==
  /\ call' = c
  /\ response' = Response(status, detail)
  /\ request' = NoCheckout
  /\ steps' = st
  /\ inflight' = pending
  /\ UNCHANGED <<users, listings, mailbox>>
  /\ Config /\ NoRateLimit

\* the same, answered by a handler that was served in one piece
Answer(c, status, detail, st) == Reply(c, status, detail, st, inflight)

\* The requests in flight are a collection without an order: the sequence
\* that holds them is kept sorted by the stage they wait at.
Rank(locals) ==
  IF locals.pc = "commit" THEN 1 ELSE IF locals.pc = "seller" THEN 2 ELSE 3

Insert(seq, locals) ==
  LET before == {i \in DOMAIN seq : Rank(seq[i]) <= Rank(locals)}
      k == Cardinality(before)
  IN  [i \in 1..(Len(seq) + 1) |->
         IF i <= k THEN seq[i] ELSE IF i = k + 1 THEN locals ELSE seq[i - 1]]

\* a handler that has run a statement and is not finished: it has no answer
\* yet, and its local variables `locals` stay with the requests in flight
Suspend(c, st, locals) ==
  /\ Len(inflight) < MaxInFlight
  /\ inflight' = Insert(inflight, locals)
  /\ call' = c
  /\ response' = Response(0, "")
  /\ request' = NoCheckout
  /\ steps' = st
  /\ UNCHANGED <<users, listings, mailbox>>
  /\ Config /\ NoRateLimit

(***************************************************************************)
(* /register and /login                                                    *)
(***************************************************************************)
\* existing = select(User).where(User.username == username).first(); the
\* password is hashed next and the row is written by register_commit, with
\* other requests (of the other backend too) served in between
Register(c, username, password, stripe_account_id) ==
  IF UserByName(username) # 0
  THEN Answer(c, 400, "Username already exists", <<"lookup_user">>)
  ELSE Suspend(c, <<"lookup_user">>,
               [backend |-> c.backend,
                hashed_password |-> hash_pw(password),
                pc |-> "commit",
                stripe_account_id |-> stripe_account_id,
                username |-> username])

\* session.add(user); session.commit(): username is UNIQUE, so the INSERT of
\* a name registered since the lookup raises IntegrityError, which nothing
\* catches
register_commit(d) ==
  LET u == inflight[d]
      c == [backend |-> u.backend, op |-> "register", username |-> u.username]
  IN  /\ u.pc = "commit"
      /\ IF UserByName(u.username) # 0
         THEN Reply(c, 500, "Internal Server Error",
                    <<"lookup_user", "write_user">>, Remove(inflight, d))
         ELSE /\ users' = Append(users,
                             [hashed_password |-> u.hashed_password,
                              stripe_account_id |-> u.stripe_account_id,
                              username |-> u.username])
              /\ inflight' = Remove(inflight, d)
              /\ call' = c
              /\ response' = Response(200, "registered")
              /\ request' = NoCheckout
              /\ steps' = <<"lookup_user", "write_user">>
              /\ UNCHANGED <<listings, mailbox>>
              /\ Config /\ NoRateLimit

\* src/app.py: the flat User table has no payout column
register_flat(username, password) ==
  Register([backend |-> "flat", op |-> "register", username |-> username],
           username, password, NULL)

register_connect(username, password, stripe_account_id) ==
  LET c == [backend |-> "connect", op |-> "register", username |-> username]
  IN  IF ~HasPayoutColumn
      THEN Answer(c, 500, "Internal Server Error", <<"lookup_user">>)
      ELSE Register(c, username, password, stripe_account_id)

Login(c, username, password, failure, detail) ==
  LET u == UserByName(username)
  IN  IF u = 0 \/ ~verify_pw(password, users[u].hashed_password)
      THEN Answer(c, failure, detail, <<"lookup_user">>)
      ELSE Answer(c, 200, "logged in", <<"lookup_user">>)

login_flat(username, password) ==
  Login([backend |-> "flat", op |-> "login", username |-> username],
        username, password, 400, "Invalid Login")

login_connect(username, password) ==
  LET c == [backend |-> "connect", op |-> "login", username |-> username]
  IN  IF ~HasPayoutColumn
      THEN Answer(c, 500, "Internal Server Error", <<"lookup_user">>)
      ELSE Login(c, username, password, 401, "Invalid username or password")

(***************************************************************************)
(* /create_listing (the image upload and the text fields are not stored    *)
(* in the model: no handler reads them back for a decision)                *)
(***************************************************************************)
NewListing(price, seller_id) ==
  [price |-> price, seller_id |-> seller_id, sold |-> FALSE]

\* session.add(listing); session.commit(); the requests still being served
\* afterwards are `pending`
InsertListing(c, price, seller_id, pending) ==
  /\ Len(listings) < MaxListings
  /\ listings' = Append(listings, NewListing(price, seller_id))
  /\ inflight' = pending
  /\ call' = c
  /\ response' = Response(200, "listing created")
  /\ request' = NoCheckout
  /\ steps' = <<"write_listing">>
  /\ UNCHANGED <<users, mailbox>>
  /\ Config /\ NoRateLimit

\* src/app.py: seller_id is stored as given (sqlite does not enforce the key)
\* the upload is read before the only statement that touches the database
create_listing_flat(price, seller_id) ==
  InsertListing([backend |-> "flat", op |-> "create_listing"], price, seller_id,
                inflight)

\* lines 179-187: the seller is looked up, then the handler awaits the
\* upload (await image.read()) and other requests are served meanwhile
create_listing_connect(price, seller_id) ==
  LET c == [backend |-> "connect", op |-> "create_listing"]
  IN  IF ~HasPayoutColumn
      THEN Answer(c, 500, "Internal Server Error", <<"lookup_user">>)
      ELSE IF seller_id \notin UserIds
      THEN Answer(c, 400, "Invalid seller_id", <<"lookup_user">>)
      ELSE /\ Len(listings) + Len(inflight) < MaxListings
           /\ Suspend(c, <<"lookup_user">>,
                      [pc |-> "store", price |-> price, seller_id |-> seller_id])

\* lines 189-200: the upload has been read; the listing is stored
create_listing_connect_store(d) ==
  /\ inflight[d].pc = "store"
  /\ InsertListing([backend |-> "connect", op |-> "create_listing"],
                   inflight[d].price, inflight[d].seller_id, Remove(inflight, d))

(***************************************************************************)
(* /create_checkout_session                                                *)
(***************************************************************************)
\* stripe.checkout.Session.create returns a session unless the processor is
\* unreachable or rejects the request; it rejects every request made
\* without an API key
StripeAccepts(reachable) == STRIPE_SECRET_KEY # "" /\ reachable

\* the keyword arguments src/app.py passes to Session.create
FlatCheckout(listing_id, buyer_email) ==
  [application_fee_amount |-> 0,
   backend |-> "flat",
   customer_email |-> buyer_email,
   destination |-> NULL,
   metadata_listing_id |-> str(listing_id),
   sent |-> TRUE,
   unit_amount |-> price_cents(listings[listing_id].price)]

\* the keyword arguments src/rcmp123/backend/app.py passes to Session.create
ConnectCheckout(listing_id, buyer_email) ==
  [application_fee_amount |-> PLATFORM_FEE_CENTS,
   backend |-> "connect",
   customer_email |-> buyer_email,
   destination |-> users[listings[listing_id].seller_id].stripe_account_id,
   metadata_listing_id |-> NoKey,
   sent |-> TRUE,
   unit_amount |-> amount_cents(listings[listing_id].price)]

\* a checkout that reserves the listing as soon as the session exists
CallStripe_marks_sold(c, checkout, reachable, st) ==
  /\ call' = c
  /\ request' = checkout
  /\ response' = IF StripeAccepts(reachable)
                 THEN Response(200, "checkout_url")
                 ELSE Response(500, "Stripe error")
  /\ steps' = Append(st, "stripe_create")
  /\ listings' = IF StripeAccepts(reachable)
                 THEN [listings EXCEPT ![c.listing_id].sold = TRUE]
                 ELSE listings
  /\ UNCHANGED <<users, mailbox>>
  /\ Config /\ NoRateLimit

\* a checkout that takes the listing off sale before it calls Stripe and
\* does not put it back when the call fails
CallStripe_reserves_first(c, checkout, reachable, st) ==
  /\ call' = c
  /\ request' = checkout
  /\ response' = IF StripeAccepts(reachable)
                 THEN Response(200, "checkout_url")
                 ELSE Response(500, "Stripe error")
  /\ steps' = Append(st, "stripe_create")
  /\ listings' = [listings EXCEPT ![c.listing_id].sold = TRUE]
  /\ UNCHANGED <<users, mailbox>>
  /\ Config /\ NoRateLimit

\* the try/except around Session.create: the redirect, or 500 "Stripe error"
\* (the caller says which requests are still in flight)
CallStripe(c, checkout, reachable, st) ==
  /\ call' = c
  /\ request' = checkout
  /\ response' = IF StripeAccepts(reachable)
                 THEN Response(200, "checkout_url")
                 ELSE Response(500, "Stripe error")
  /\ steps' = Append(st, "stripe_create")
  /\ UNCHANGED <<users, listings, mailbox>>
  /\ Config /\ NoRateLimit

AlreadySold_never(listing) == FALSE

\* if listing.sold: raise HTTPException(400, "Listing already sold")
AlreadySold(listing) == listing.sold

create_checkout_session_flat(listing_id, buyer_email, reachable) ==
  LET c == [backend |-> "flat", listing_id |-> listing_id,
            op |-> "create_checkout_session"]
  IN  IF listing_id \notin ListingIds
      THEN Answer(c, 404, "Listing not found",
                  <<"lookup_listing", "listing_missing">>)
      ELSE IF AlreadySold(listings[listing_id])
      THEN Answer(c, 400, "Listing already sold",
                  <<"lookup_listing", "listing_sold">>)
      ELSE /\ CallStripe(c, FlatCheckout(listing_id, buyer_email), reachable,
                         <<"lookup_listing", "listing_listed">>)
           /\ UNCHANGED inflight

\* a seller that always has somewhere to be paid once the row exists
SellerNotPayable_only_missing(listing) == listing.seller_id \notin UserIds

\* seller = session.get(User, listing.seller_id)
\* if not seller or not seller.stripe_account_id: raise HTTPException(400, ...)
SellerNotPayable(listing) ==
  \/ listing.seller_id \notin UserIds
  \/ users[listing.seller_id].stripe_account_id = NULL

\* lines 229-237: the key check and the listing lookup.  The handler is a
\* `def` route served on a thread; its second query (line 239) sees the
\* rows committed by then
create_checkout_session_connect(listing_id, buyer_email) ==
  LET c == [backend |-> "connect", listing_id |-> listing_id,
            op |-> "create_checkout_session"]
  IN  IF STRIPE_SECRET_KEY = ""
      THEN Answer(c, 500, "Stripe not configured (missing STRIPE_SECRET_KEY)",
                  <<>>)
      ELSE IF listing_id \notin ListingIds
      THEN Answer(c, 404, "Listing not found",
                  <<"lookup_listing", "listing_missing">>)
      ELSE IF AlreadySold(listings[listing_id])
      THEN Answer(c, 400, "Listing already sold",
                  <<"lookup_listing", "listing_sold">>)
      ELSE Suspend(c, <<"lookup_listing", "listing_listed">>,
                   [customer_email |-> buyer_email,
                    listing_id |-> listing_id,
                    pc |-> "seller"])

\* lines 239-274: the seller lookup and the call to Stripe; the listing is
\* the object loaded at line 232 (its price never changes, its sold flag
\* is not read again)
create_checkout_session_connect_seller(d, reachable) ==
  LET listing_id == inflight[d].listing_id
      c == [backend |-> "connect", listing_id |-> listing_id,
            op |-> "create_checkout_session"]
      st == <<"lookup_listing", "listing_listed", "lookup_user">>
  IN  /\ inflight[d].pc = "seller"
      /\ IF ~HasPayoutColumn
         \* session.get(User, listing.seller_id) raises outside the try
         THEN Reply(c, 500, "Internal Server Error", st, Remove(inflight, d))
         ELSE IF SellerNotPayable(listings[listing_id])
         THEN Reply(c, 400, "Seller not connected to Stripe", st,
                    Remove(inflight, d))
         ELSE /\ CallStripe(c, ConnectCheckout(listing_id,
                                               inflight[d].customer_email),
                            reachable, st)
              /\ inflight' = Remove(inflight, d)

(***************************************************************************)
(* /stripe_webhook (src/app.py only: the Connect backend has no such route)*)
(***************************************************************************)
MarkSold_toggle(listing) == [listing EXCEPT !.sold = ~listing.sold]

MarkSold_forgotten(listing) == listing

\* listing.sold = True
MarkSold(listing) == [listing EXCEPT !.sold = TRUE]

\* a query without its where clause: the first row, whatever the identifier
LookupListing_first_row(listing_id) == IF Len(listings) > 0 THEN 1 ELSE 0

\* select(Listing).where(Listing.id == listing_id).first(); 0 stands for None
LookupListing(listing_id) == IF listing_id \in ListingIds THEN listing_id ELSE 0

construct_event_key_only(payload, sig_header, secret) ==
  /\ sig_header.present
  /\ sig_header.key = secret

\* TRUE iff stripe.Webhook.construct_event returns the event (FALSE: it raises)
construct_event(payload, sig_header, secret) ==
  /\ sig_header.present
  /\ sig_header.key = secret
  /\ sig_header.body = payload

\* a handler that treats every verified event as a completed checkout
IsCheckoutCompleted_any(event) == TRUE

\* if event["type"] == "checkout.session.completed":
IsCheckoutCompleted(event) == event.type = "checkout.session.completed"

stripe_webhook(n) ==
  LET c == [notification |-> n, op |-> "stripe_webhook"]
      meta == n.payload.listing_id
      verified == <<"read_body", "verify_signature", "parse_event">>
  IN  IF STRIPE_WEBHOOK_SECRET = ""
      THEN Answer(c, 500, "Missing STRIPE_WEBHOOK_SECRET", <<"read_body">>)
      ELSE IF ~construct_event(n.payload, n.sig_header, STRIPE_WEBHOOK_SECRET)
      THEN Answer(c, 400, "Webhook error", <<"read_body", "verify_signature">>)
      ELSE IF ~IsCheckoutCompleted(n.payload)
      THEN Answer(c, 200, "success", verified)
      ELSE IF meta = NoKey \/ ~IsNumeric(meta)
      \* data["metadata"]["listing_id"] raises KeyError, int() ValueError:
      \* nothing catches them and the framework answers 500
      THEN Answer(c, 500, "Internal Server Error",
                  Append(verified, "read_metadata"))
      ELSE IF LookupListing(int(meta)) = 0
      THEN Answer(c, 200, "success",
                  verified \o <<"read_metadata", "lookup_listing", "listing_missing">>)
      ELSE LET id == LookupListing(int(meta))
           IN  /\ listings' = [listings EXCEPT ![id] = MarkSold(@)]
               /\ call' = c
               /\ response' = Response(200, "success")
               /\ request' = NoCheckout
               /\ steps' = verified \o
                    <<"read_metadata", "lookup_listing",
                      IF listings[id].sold THEN "listing_sold" ELSE "listing_listed",
                      "write_listing">>
               /\ UNCHANGED <<users, mailbox>>
               /\ Env /\ NoRateLimit

(***************************************************************************)
(* Reset tokens (src/token.py) and the reset routes                        *)
(* (src/forgot_password.py).  PyJWT stores exp as whole seconds and        *)
(* rejects a token once exp <= now.                                        *)
(***************************************************************************)
TicksPerSecond == 2
RESET_TOKEN_MINUTES == 30
RESET_TOKEN_SECRET == "changeme12345"

None == "None"

\* jwt.encode({"sub": username, "exp": utcnow() + 30 min}, secret, "HS256")
create_reset_token(username, now) ==
  [alg |-> "HS256",
   exp |-> (now \div TicksPerSecond) + RESET_TOKEN_MINUTES * 60,
   key |-> RESET_TOKEN_SECRET,
   sub |-> username]

\* a verifier told not to check the expiry
verify_reset_token_no_expiry(token, now) ==
  IF token.alg = "HS256" /\ token.key = RESET_TOKEN_SECRET
  THEN token.sub
  ELSE None

\* a verifier that reads the claims without checking who signed them
verify_reset_token_unsigned(token, now) ==
  IF token.exp * TicksPerSecond > now THEN token.sub ELSE None

\* jwt.decode(token, secret, algorithms=["H256", "HS256"]): of the two names
\* only HS256 is an algorithm the library implements
verify_reset_token(token, now) ==
  IF /\ token.alg \in {"H256", "HS256"}
     /\ token.alg = "HS256"
     /\ token.key = RESET_TOKEN_SECRET
     /\ token.exp * TicksPerSecond > now
  THEN token.sub
  ELSE None

\* tokens nobody was sent: signed with a guessed key, or declaring another
\* algorithm
ForgedTokens ==
  { [alg |-> a, exp |-> RESET_TOKEN_MINUTES * 60, key |-> k, sub |-> u] :
      u \in Callers, k \in {"guess"}, a \in {"HS256", "none"} }

PresentableTokens == {m.token : m \in mailbox} \cup ForgedTokens

forgot_password(username, smtp_ok) ==
  LET c == [op |-> "forgot_password", username |-> username]
  IN  IF UserByName(username) = 0
      THEN Answer(c, 400, "User not found", <<"lookup_user">>)
      ELSE IF ~smtp_ok
      \* send_reset_email raises: the token was made but reaches nobody
      THEN Answer(c, 500, "Internal Server Error",
                  <<"lookup_user", "create_token", "send_email">>)
      ELSE /\ mailbox' = mailbox \cup
                {[sent_at |-> clock, to |-> username,
                  token |-> create_reset_token(username, clock)]}
           /\ call' = c
           /\ response' = Response(200, "Reset link sent")
           /\ request' = NoCheckout
           /\ steps' = <<"lookup_user", "create_token", "send_email">>
           /\ UNCHANGED <<users, listings>>
           /\ Env /\ NoRateLimit

reset_password(token, password) ==
  LET c == [op |-> "reset_password", token |-> token]
      username == verify_reset_token(token, clock)
  IN  IF username = None
      THEN Answer(c, 400, "Invalid or expired token", <<"verify_token">>)
      ELSE IF UserByName(username) = 0
      THEN Answer(c, 400, "User not found", <<"verify_token", "lookup_user">>)
      ELSE /\ users' = [users EXCEPT
                          ![UserByName(username)].hashed_password = hash_pw(password)]
           /\ call' = c
           /\ response' = Response(200, "Password updated")
           /\ request' = NoCheckout
           /\ steps' = <<"verify_token", "lookup_user", "write_user">>
           /\ UNCHANGED <<listings, mailbox>>
           /\ Env /\ NoRateLimit

(***************************************************************************)
(* The marketplace: every request of both backends, in any order           *)
(***************************************************************************)
Next ==
  \/ \E u \in Usernames, p \in Chosen : register_flat(u, p)
  \/ \E u \in Usernames, p \in Chosen, a \in PayoutAccounts :
       register_connect(u, p, a)
  \/ \E u \in Callers, p \in Passwords : login_flat(u, p)
  \/ \E u \in Callers, p \in Passwords : login_connect(u, p)
  \/ \E pr \in Offered, sid \in FormUserIds : create_listing_flat(pr, sid)
  \/ \E pr \in Offered, sid \in FormUserIds : create_listing_connect(pr, sid)
  \/ \E d \in DOMAIN inflight : register_commit(d)
  \/ \E d \in DOMAIN inflight : create_listing_connect_store(d)
  \/ \E l \in FormListingIds, e \in Emails, r \in BOOLEAN :
       create_checkout_session_flat(l, e, r)
  \/ \E l \in FormListingIds, e \in Emails :
       create_checkout_session_connect(l, e)
  \/ \E d \in DOMAIN inflight, r \in BOOLEAN :
       create_checkout_session_connect_seller(d, r)
  \/ \E n \in Notifications : stripe_webhook(n)

Spec == Init /\ [][Next]_vars

(***************************************************************************)
(* The reset-token functions on their own: a token is issued at some       *)
(* instant (fractions of a second included), the clock runs, and tokens    *)
(* are verified at any later instant.                                      *)
(***************************************************************************)
MaxIssueTick == 3

TokenWindowTicks == RESET_TOKEN_MINUTES * 60 * TicksPerSecond
TokenHorizon == MaxIssueTick + TokenWindowTicks + 2 * TicksPerSecond

Result(value) == [detail |-> value, status |-> 0]

InitToken ==
  /\ Init
  /\ STRIPE_SECRET_KEY = ""
  /\ STRIPE_WEBHOOK_SECRET = ""
  /\ schema = "flat"

Market ==
  <<STRIPE_SECRET_KEY, STRIPE_WEBHOOK_SECRET, schema, users, listings, request,
    inflight>>

IssueToken(username) ==
  /\ clock <= MaxIssueTick
  /\ mailbox = {}
  /\ mailbox' = {[sent_at |-> clock, to |-> username,
                  token |-> create_reset_token(username, clock)]}
  /\ call' = [now |-> clock, op |-> "create_reset_token", username |-> username]
  /\ response' = Result("token")
  /\ steps' = <<>>
  /\ UNCHANGED <<Market, clock, attempts, history>>

VerifyToken(token) ==
  /\ call' = [now |-> clock, op |-> "verify_reset_token", token |-> token]
  /\ response' = Result(verify_reset_token(token, clock))
  /\ steps' = <<>>
  /\ UNCHANGED <<Market, mailbox, clock, attempts, history>>

\* the clock moves by one tick, or jumps to shortly before the tokens issued
\* around now expire
TokenDeltas == {1, TokenWindowTicks - 2 * TicksPerSecond}

\* time passes; the answer to the last call is no longer on the wire
TickToken(d) ==
  /\ clock + d <= TokenHorizon
  /\ clock' = clock + d
  /\ call' = NoCall
  /\ response' = Response(0, "")
  /\ UNCHANGED <<Market, mailbox, steps, attempts, history>>

NextToken ==
  \/ \E u \in Callers : IssueToken(u)
  \/ \E t \in PresentableTokens : VerifyToken(t)
  \/ \E d \in TokenDeltas : TickToken(d)

SpecToken == InitToken /\ [][NextToken]_vars

(***************************************************************************)
(* The rate limiter (src/rate_limit.py) under a clock that never runs      *)
(* backwards.  time() is read in ticks; limit and window keep their        *)
(* defaults.                                                               *)
(***************************************************************************)
DEFAULT_LIMIT == 5
DEFAULT_WINDOW == 60

MaxCalls == 7

Ips == {"10.0.0.1", "10.0.0.2"}

RateWindowTicks == DEFAULT_WINDOW * TicksPerSecond

RateHorizon == 2 * RateWindowTicks

\* half a window, and one tick less: two steps of the clock make exactly one
\* window or fall one tick short of it
RateDeltas == {RateWindowTicks \div 2, RateWindowTicks - (RateWindowTicks \div 2) - 1}

Record(ip) == IF ip \in DOMAIN attempts THEN attempts[ip] ELSE <<>>

\* [t for t in attempts[ip] if now - t < window]
Prune(record, now, window) ==
  LET Recent(t) == now - t < window * TicksPerSecond
  IN  SelectSeq(record, Recent)

Denied_off_by_one(kept, limit) == Len(kept) > limit

\* len(attempts[ip]) >= limit: return False
Denied(kept, limit) == Len(kept) >= limit

\* a limiter that records the attempts it refuses as well
Recorded_always(kept, now, allowed) == Append(kept, now)

\* return False leaves the pruned record; attempts[ip].append(now) otherwise
Recorded(kept, now, allowed) == IF allowed THEN Append(kept, now) ELSE kept

rate_limit(ip, limit, window) ==
  LET now == clock
      kept == Prune(Record(ip), now, window)
      allowed == ~Denied(kept, limit)
  IN  /\ Len(history) < MaxCalls
      /\ attempts' = [i \in DOMAIN attempts \cup {ip} |->
                        IF i # ip THEN attempts[i]
                        ELSE Recorded(kept, now, allowed)]
      /\ history' = Append(history, [allowed |-> allowed, ip |-> ip, now |-> now])
      /\ call' = [ip |-> ip, now |-> now, op |-> "rate_limit"]
      /\ response' = Result(IF allowed THEN "True" ELSE "False")
      /\ steps' = <<>>
      /\ UNCHANGED <<Market, mailbox, clock>>

TickRate(d) ==
  /\ clock + d <= RateHorizon
  /\ clock' = clock + d
  /\ UNCHANGED <<Market, mailbox, call, response, steps, attempts, history>>

NextRate ==
  \/ \E ip \in Ips : rate_limit(ip, DEFAULT_LIMIT, DEFAULT_WINDOW)
  \/ \E d \in RateDeltas : TickRate(d)

SpecRate == InitToken /\ [][NextRate]_vars

(***************************************************************************)
(* Properties of the marketplace (checked under Spec)                      *)
(***************************************************************************)
Webhook == call.op = "stripe_webhook"
WebhookStep == call'.op = "stripe_webhook"
CheckoutStep == call'.op = "create_checkout_session"

\* the step is the first of its request (it runs the handler from its
\* entry), not the rest of a request that was in flight
Entered == Len(inflight') >= Len(inflight)
\* the step ends its request with an answer
Answered == response'.status # 0

\* the header is the signature of exactly this body under the configured secret
CorrectlySigned(n) ==
  /\ STRIPE_WEBHOOK_SECRET # ""
  /\ n.sig_header = Sign(STRIPE_WEBHOOK_SECRET, n.payload)

\* a "checkout completed" event whose metadata names listing l
CompletedFor(n, l) ==
  /\ n.payload.type = "checkout.session.completed"
  /\ n.payload.listing_id = str(l)

StoreUnchanged == listings' = listings /\ users' = users /\ mailbox' = mailbox

Sold(l) == l \in ListingIds /\ listings[l].sold

\* C1: a listing that is sold is still there and still sold after every step
\* of every operation: no step takes a listing from SOLD back to LISTED.
C1_SoldIsPermanent ==
  [][\A l \in ListingIds :
       listings[l].sold => l \in DOMAIN listings' /\ listings'[l].sold]_vars

\* a listing was sold and requests of other kinds were served afterwards
C1_Witness ==
  /\ call.op = "create_listing"
  /\ response.status = 200
  /\ Sold(1)
  /\ Len(listings) > 1

\* C2: every delivery of a correctly signed "checkout completed" event for an
\* existing listing is acknowledged with success; the delivery that finds the
\* listing LISTED makes it SOLD and changes nothing else, and a delivery that
\* finds it SOLD changes nothing at all.
C2_RedeliveryIsIdempotent ==
  [][\A l \in ListingIds :
       (WebhookStep /\ CorrectlySigned(call'.notification)
          /\ CompletedFor(call'.notification, l))
       => /\ response' = Response(200, "success")
          /\ listings' = [listings EXCEPT ![l].sold = TRUE]
          /\ (listings[l].sold => listings' = listings)
          /\ users' = users /\ mailbox' = mailbox]_vars

\* the second delivery: the handler found the listing sold and acknowledged
C2_Witness ==
  /\ Webhook
  /\ CorrectlySigned(call.notification)
  /\ \E l \in ListingIds : CompletedFor(call.notification, l) /\ Sold(l)
  /\ steps[Len(steps) - 1] = "listing_sold"
  /\ response = Response(200, "success")

Touched(st) == {st[i] : i \in DOMAIN st}

\* C3 as stated: a notification that is not correctly signed (tampered body,
\* wrong or missing signature) is answered 400 before any metadata is read or
\* any listing looked up, and the store does not change.
C3_Original ==
  [][(WebhookStep /\ ~CorrectlySigned(call'.notification))
       => /\ response'.status = 400
          /\ Touched(steps') \subseteq {"read_body", "verify_signature"}
          /\ StoreUnchanged]_vars

\* C3 as amended: such a notification is rejected before any metadata is read
\* or any listing looked up and the store does not change; the rejection is
\* 400 when STRIPE_WEBHOOK_SECRET is configured and 500 when it is not.
C3_UnsignedIsRejected ==
  [][(WebhookStep /\ ~CorrectlySigned(call'.notification))
       => /\ response'.status = (IF STRIPE_WEBHOOK_SECRET = "" THEN 500 ELSE 400)
          /\ Touched(steps') \subseteq {"read_body", "verify_signature"}
          /\ StoreUnchanged]_vars

\* a body changed after it was signed, for a listing that exists and is
\* still listed, has been rejected with 400
C3_Witness ==
  /\ Webhook
  /\ STRIPE_WEBHOOK_SECRET # ""
  /\ call.notification.sig_header =
       Sign(STRIPE_WEBHOOK_SECRET, Original(call.notification.payload))
  /\ \E l \in ListingIds : CompletedFor(call.notification, l) /\ ~listings[l].sold
  /\ response.status = 400

\* C4 as stated: every correctly signed notification is answered with the
\* success acknowledgment, whatever the event carries.
C4_SignedIsAcknowledged ==
  (Webhook /\ CorrectlySigned(call.notification))
    => response = Response(200, "success")

\* C7 as stated: in both backends a checkout for a missing listing is answered
\* 404 and a checkout for a sold listing 400, and nothing is passed to Stripe.
C7_Original ==
  [][CheckoutStep =>
       /\ (call'.listing_id \notin ListingIds
             => response'.status = 404 /\ request' = NoCheckout)
       /\ (Sold(call'.listing_id)
             => response'.status = 400 /\ request' = NoCheckout)]_vars

\* the Connect backend answers 500 before it looks anything up when it has no
\* Stripe key
Unconfigured(c) == c.backend = "connect" /\ STRIPE_SECRET_KEY = ""

\* C7 as amended: a checkout that finds the listing missing or sold when it
\* looks it up is answered 404 or 400, except that the Connect backend
\* without a STRIPE_SECRET_KEY answers 500 "Stripe not configured" instead;
\* in every one of these cases the request ends there, nothing is passed to
\* Stripe and no redirect is returned.  (The Connect backend reads the sale
\* state once: a listing sold after that lookup is not refused.)
C7_MissingOrSoldIsRefused ==
  [][(CheckoutStep /\ Entered
        /\ (call'.listing_id \notin ListingIds \/ Sold(call'.listing_id)))
       => /\ request' = NoCheckout
          /\ inflight' = inflight
          /\ response'.detail # "checkout_url"
          /\ response'.status =
               (IF Unconfigured(call') THEN 500
                ELSE IF call'.listing_id \notin ListingIds THEN 404 ELSE 400)]_vars

\* the configured Connect backend has refused a checkout for a sold listing
C7_Witness ==
  /\ call.op = "create_checkout_session"
  /\ call.backend = "connect"
  /\ STRIPE_SECRET_KEY # ""
  /\ Sold(call.listing_id)
  /\ response = Response(400, "Listing already sold")
  /\ request = NoCheckout

\* C8: no checkout request, whatever its outcome, changes a user, a listing
\* or the mailbox; and a step in which some listing goes from LISTED to SOLD
\* is a step of stripe_webhook.
C8_CheckoutWritesNothing ==
  [][/\ CheckoutStep => StoreUnchanged
     /\ (\E l \in ListingIds : ~listings[l].sold /\ listings'[l].sold)
          => WebhookStep]_vars

\* a checkout session was created and its listing is still listed
C8_Witness ==
  /\ call.op = "create_checkout_session"
  /\ response = Response(200, "checkout_url")
  /\ request.sent
  /\ call.listing_id \in ListingIds
  /\ ~listings[call.listing_id].sold

\* distance between an amount in cents and a price in thousandths, in
\* thousandths of a dollar
OffBy(cents, milli) ==
  IF 10 * cents >= milli THEN 10 * cents - milli ELSE milli - 10 * cents

\* C9 as stated: every request passed to Stripe carries the listing's price
\* times 100 rounded to the nearest cent (19.99 gives 1999), and the Connect
\* backend adds the fee of 123 and the seller's payout account.
C9_AmountIsRounded ==
  request.sent =>
    LET listing == listings[call.listing_id]
    IN  /\ OffBy(request.unit_amount, listing.price.milli) <= 5
        /\ (listing.price.milli = 19990 => request.unit_amount = 1999)
        /\ (request.backend = "connect" =>
              /\ request.application_fee_amount = 123
              /\ request.destination = users[listing.seller_id].stripe_account_id)

\* C10: a correctly signed "checkout completed" event naming a listing that
\* is not in the store is acknowledged with success and changes nothing.
C10_MissingListingIsAcknowledged ==
  [][\A l \in FormListingIds :
       (WebhookStep /\ CorrectlySigned(call'.notification)
          /\ CompletedFor(call'.notification, l) /\ l \notin ListingIds)
       => response' = Response(200, "success") /\ StoreUnchanged]_vars

\* such an event was acknowledged while another listing was on sale
C10_Witness ==
  /\ Webhook
  /\ CorrectlySigned(call.notification)
  /\ \E l \in FormListingIds : CompletedFor(call.notification, l) /\ l \notin ListingIds
  /\ \E k \in ListingIds : ~listings[k].sold
  /\ response = Response(200, "success")

(***************************************************************************)
(* Properties of the reset token (checked under SpecToken)                 *)
(***************************************************************************)
Verified == call.op = "verify_reset_token"

\* the e-mails that carried the token just verified
Carrying(token) == {m \in mailbox : m.token = token}

\* a token verifies to nothing, or to the name it was issued for
OnlyItsOwner ==
  Verified => response.detail \in {None} \cup {m.to : m \in Carrying(call.token)}

\* C5 as stated: a token issued for u at time t verifies to u at every time
\* before t + 30 min and to None at every time after t + 30 min, and never to
\* another name.
C5_Original ==
  /\ OnlyItsOwner
  /\ Verified =>
       \A m \in Carrying(call.token) :
         /\ call.now < m.sent_at + TokenWindowTicks => response.detail = m.to
         /\ call.now > m.sent_at + TokenWindowTicks => response.detail = None

\* the expiry instant of a token issued at tick t: the issuing second, its
\* fraction dropped, plus 30 minutes
ExpiresAt(t) == (t \div TicksPerSecond) * TicksPerSecond + TokenWindowTicks

\* C5 as amended: the expiry is kept in whole seconds, so with T = (t rounded
\* down to the second) + 30 min the token verifies to u at every time before T
\* and to None at every time from T on, and never to another name.
C5_TokenRoundTrip ==
  /\ OnlyItsOwner
  /\ Verified =>
       \A m \in Carrying(call.token) :
         /\ call.now < ExpiresAt(m.sent_at) => response.detail = m.to
         /\ call.now >= ExpiresAt(m.sent_at) => response.detail = None

\* a token issued in the middle of a second was refused at its expiry instant
C5_Witness ==
  /\ Verified
  /\ \E m \in Carrying(call.token) :
       /\ m.sent_at % TicksPerSecond # 0
       /\ call.now = ExpiresAt(m.sent_at)
  /\ response.detail = None

(***************************************************************************)
(* Properties of the rate limiter (checked under SpecRate)                 *)
(***************************************************************************)
RateStep == Len(history') = Len(history) + 1

\* the calls made for one identifier, oldest first
CallsOf(ip) ==
  LET Mine(h) == h.ip = ip
  IN  SelectSeq(history, Mine)

\* of the first calls of an identifier, those made less than a window after
\* the first one are allowed up to the fifth and the sixth is denied
BurstIsCapped ==
  \A ip \in Ips :
    LET H == CallsOf(ip)
    IN  \A k \in 1..Len(H) :
          H[k].now - H[1].now < RateWindowTicks =>
            /\ k <= DEFAULT_LIMIT => H[k].allowed
            /\ k = DEFAULT_LIMIT + 1 => ~H[k].allowed

\* what one call does to the record of its identifier when the timestamps
\* kept are those Kept accepts
CallFollows(Kept(_, _)) ==
  RateStep =>
    LET h == history'[Len(history')]
        record == Record(h.ip)
        Keep(t) == Kept(h.now, t)
        kept == SelectSeq(record, Keep)
    IN  /\ h.now = clock
        /\ h.allowed <=> Len(kept) < DEFAULT_LIMIT
        /\ attempts'[h.ip] = IF h.allowed THEN Append(kept, h.now) ELSE kept
        /\ (record # <<>> /\ ~Keep(record[1])) => h.allowed

KeptUpToWindow(now, t) == now - t <= RateWindowTicks
KeptInsideWindow(now, t) == now - t < RateWindowTicks

\* C6 as stated: five calls within 60 s are allowed and a sixth is denied; a
\* call made once the oldest recorded attempt has left the window is allowed;
\* each call prunes the timestamps with now - t > window, is denied iff at
\* least 5 remain, and is recorded otherwise.
C6_Original == []BurstIsCapped /\ [][CallFollows(KeptUpToWindow)]_vars

\* C6 as amended: the same, with the pruning as the code does it: each call
\* prunes the timestamps with now - t >= window, so an attempt exactly one
\* window old no longer counts.
C6_SlidingWindow == []BurstIsCapped /\ [][CallFollows(KeptInsideWindow)]_vars

\* an identifier was denied its sixth call and allowed again exactly one
\* window after its first
C6_Witness ==
  \E ip \in Ips :
    LET H == CallsOf(ip)
    IN  /\ Len(H) = DEFAULT_LIMIT + 2
        /\ ~H[DEFAULT_LIMIT + 1].allowed
        /\ H[DEFAULT_LIMIT + 2].allowed
        /\ H[DEFAULT_LIMIT + 2].now - H[1].now = RateWindowTicks

(***************************************************************************)
(* Further properties of the marketplace (checked under Spec)              *)
(***************************************************************************)
AuthOps == {"login", "forgot_password", "reset_password"}
AuthStep == call'.op \in AuthOps

\* C11 as stated: every login, forgot-password and reset-password request
\* goes through the rate limiter before it verifies a credential, issues a
\* token, sends an e-mail or changes a password: serving such a request makes
\* one rate_limit call for its caller.
C11_AuthIsRateLimited ==
  [][AuthStep => Len(history') = Len(history) + 1]_vars

ConnectStep == CheckoutStep /\ call'.backend = "connect"

\* the listing's seller row is gone, or carries no payout account
Unpayable(l) ==
  \/ listings[l].seller_id \notin UserIds
  \/ users[listings[l].seller_id].stripe_account_id = NULL

\* what the Connect backend answers when it looks at the listing, its sale
\* state and its seller, in this order
Precondition(l) ==
  IF l \notin ListingIds THEN Response(404, "Listing not found")
  ELSE IF listings[l].sold THEN Response(400, "Listing already sold")
  ELSE Response(400, "Seller not connected to Stripe")

\* C12 as stated: in the Connect backend a checkout for a listed listing
\* whose seller is missing or has no payout account is answered 400
\* SellerNotPayable and nothing is passed to Stripe; the checks come in the
\* order NotFound, AlreadySold, SellerNotPayable.
C12_Original ==
  [][\A l \in FormListingIds :
       (ConnectStep /\ Answered /\ call'.listing_id = l
          /\ (l \notin ListingIds \/ listings[l].sold \/ Unpayable(l)))
       => response' = Precondition(l) /\ request' = NoCheckout]_vars

\* C12 as amended: in the Connect backend a checkout passes nothing to
\* Stripe when it finds the listing missing or sold at its listing lookup,
\* or its seller missing or without a payout account at its seller lookup.
\* With STRIPE_SECRET_KEY configured the listing is looked at first (404
\* NotFound, then 400 AlreadySold) and the seller afterwards, against the
\* rows committed by then (400 SellerNotPayable; over a user table made by
\* the flat backend the seller lookup fails with 500 whatever the seller).
\* Without the key the answer is 500 "Stripe not configured" before any of
\* the three checks.
C12_SellerMustBePayable ==
  [][\A l \in FormListingIds :
       /\ (ConnectStep /\ Entered /\ call'.listing_id = l)
            => /\ Unconfigured(call')
                    => /\ response' = Response(500, "Stripe not configured (missing STRIPE_SECRET_KEY)")
                       /\ request' = NoCheckout /\ inflight' = inflight
               /\ (~Unconfigured(call') /\ (l \notin ListingIds \/ listings[l].sold))
                    => /\ response' = Precondition(l)
                       /\ request' = NoCheckout /\ inflight' = inflight
       /\ (ConnectStep /\ ~Entered /\ call'.listing_id = l)
            => /\ ~HasPayoutColumn
                    => /\ response' = Response(500, "Internal Server Error")
                       /\ request' = NoCheckout
               /\ (HasPayoutColumn /\ Unpayable(l))
                    => /\ response' = Response(400, "Seller not connected to Stripe")
                       /\ request' = NoCheckout]_vars

\* a listed listing of a registered seller without a payout account was
\* refused by the configured Connect backend
C12_Witness ==
  /\ call.op = "create_checkout_session"
  /\ call.backend = "connect"
  /\ STRIPE_SECRET_KEY # ""
  /\ HasPayoutColumn
  /\ call.listing_id \in ListingIds
  /\ ~listings[call.listing_id].sold
  /\ listings[call.listing_id].seller_id \in UserIds
  /\ users[listings[call.listing_id].seller_id].stripe_account_id = NULL
  /\ response = Response(400, "Seller not connected to Stripe")
  /\ request = NoCheckout

\* the "checkout completed" event Stripe emits for a paid session: it hands
\* back the metadata the session was created with
CompletedEventOf(checkout) ==
  [listing_id |-> checkout.metadata_listing_id,
   type |-> "checkout.session.completed"]

CarriesListingId ==
  request.sent => request.metadata_listing_id = str(call.listing_id)

\* C13 as stated: every request passed to Stripe, by either backend, carries
\* the identifier of its listing as metadata; and when the correctly signed
\* "checkout completed" event of the session just created is delivered, that
\* listing is sold afterwards and no other listing changes.
C13_CheckoutCarriesListingId ==
  /\ []CarriesListingId
  /\ [][(/\ request.sent /\ response.status = 200
         /\ WebhookStep
         /\ CorrectlySigned(call'.notification)
         /\ call'.notification.payload = CompletedEventOf(request))
        => listings' = [listings EXCEPT ![call.listing_id].sold = TRUE]]_vars

(***************************************************************************)
(* stripe_webhook served in parallel (src/app.py, several worker           *)
(* processes over the one database).  A delivery reads the listing         *)
(* (line 205) and commits it later (lines 207-209); other deliveries run   *)
(* in between.  At commit the ORM issues UPDATE listing SET sold = 1       *)
(* WHERE id = ? when the value it loaded was False, and nothing when the   *)
(* value it loaded was already True.                                       *)
(***************************************************************************)
MaxDeliveries == 3

InitWebhook ==
  /\ Init
  /\ STRIPE_SECRET_KEY = "sk_test"
  /\ STRIPE_WEBHOOK_SECRET = "whsec_live"

Served == <<STRIPE_SECRET_KEY, STRIPE_WEBHOOK_SECRET, schema, users, mailbox, clock,
            request, steps, attempts, history>>

\* the correctly signed "checkout completed" events for listings that may exist
SignedCompleted ==
  { n \in Notifications :
      /\ n.sig_header = Sign("whsec_live", n.payload)
      /\ n.payload.type = "checkout.session.completed"
      /\ IsNumeric(n.payload.listing_id) }

\* lines 188-204: the event is verified and its listing identifier read
webhook_receive(n) ==
  /\ Len(inflight) < MaxDeliveries
  /\ STRIPE_WEBHOOK_SECRET # ""
  /\ construct_event(n.payload, n.sig_header, STRIPE_WEBHOOK_SECRET)
  /\ IsCheckoutCompleted(n.payload)
  /\ inflight' = Append(inflight,
                        [found |-> FALSE,
                         listing_id |-> int(n.payload.listing_id),
                         notification |-> n,
                         pc |-> "lookup",
                         sold |-> FALSE,
                         wrote |-> FALSE])
  /\ UNCHANGED <<Served, listings, call, response>>

\* line 205: listing = session_db.exec(select(Listing)...).first()
webhook_lookup(d) ==
  /\ inflight[d].pc = "lookup"
  /\ LET id == LookupListing(inflight[d].listing_id)
     IN  inflight' = [inflight EXCEPT
                        ![d].found = (id # 0),
                        ![d].sold = (id # 0 /\ listings[id].sold),
                        ![d].pc = IF id # 0 THEN "commit" ELSE "return"]
  /\ UNCHANGED <<Served, listings, call, response>>

\* lines 207-209: listing.sold = True; session_db.add(listing); commit()
webhook_commit(d) ==
  /\ inflight[d].pc = "commit"
  /\ LET id == inflight[d].listing_id
         dirty == ~inflight[d].sold
     IN  /\ listings' = IF dirty THEN [listings EXCEPT ![id] = MarkSold(@)]
                        ELSE listings
         /\ inflight' = [inflight EXCEPT ![d].wrote = dirty, ![d].pc = "return"]
  /\ UNCHANGED <<Served, call, response>>

\* line 211: return JSONResponse({"status": "success"})
webhook_return(d) ==
  /\ inflight[d].pc = "return"
  /\ inflight' = [inflight EXCEPT ![d].pc = "done"]
  /\ call' = [notification |-> inflight[d].notification, op |-> "stripe_webhook"]
  /\ response' = Response(200, "success")
  /\ UNCHANGED <<Served, listings>>

NextWebhook ==
  \/ \E pr \in Offered : create_listing_flat(pr, 1)
  \/ \E n \in SignedCompleted : webhook_receive(n)
  \/ \E d \in DOMAIN inflight : webhook_lookup(d)
  \/ \E d \in DOMAIN inflight : webhook_commit(d)
  \/ \E d \in DOMAIN inflight : webhook_return(d)

SpecWebhook == InitWebhook /\ [][NextWebhook]_vars

\* the deliveries that have written the sale flag of listing l
WritersOf(l) ==
  {d \in DOMAIN inflight : inflight[d].listing_id = l /\ inflight[d].wrote}

\* delivery d commits a write in this step
Writes(d) ==
  /\ d \in DOMAIN inflight
  /\ inflight[d].pc = "commit"
  /\ inflight'[d].wrote

\* C14 as stated: however parallel deliveries for one listing interleave, a
\* delivery writes the sale flag only while the listing is still LISTED (a
\* compare-and-set), so at most one delivery per listing performs the write
\* and no delivery overwrites the flag on the strength of a stale read.
C14_SaleIsCompareAndSet ==
  /\ [](\A l \in FormListingIds : Cardinality(WritersOf(l)) <= 1)
  /\ [][\A d \in 1..MaxDeliveries :
          Writes(d) => ~listings[inflight[d].listing_id].sold]_vars

(***************************************************************************)
(* rate_limit called from several threads at once (src/rate_limit.py has   *)
(* no lock).  Each statement of the function is a step of its own, and     *)
(* line 11 is two: the list comprehension reads and filters the record,    *)
(* then the result is stored.  The clock stands still, so every call falls *)
(* into one window and nothing is ever old enough to be pruned.            *)
(***************************************************************************)
MaxParallel == 2

Returns(d, allowed) ==
  /\ history' = Append(history, [allowed |-> allowed, ip |-> inflight[d].ip,
                                 now |-> inflight[d].now])
  /\ call' = [ip |-> inflight[d].ip, now |-> inflight[d].now, op |-> "rate_limit"]
  /\ response' = Result(IF allowed THEN "True" ELSE "False")
  /\ inflight' = Remove(inflight, d)

\* line 6: now = time()
limit_enter(ip) ==
  /\ Len(inflight) < MaxParallel
  /\ Len(history) + Len(inflight) < MaxCalls
  /\ inflight' = Append(inflight, [ip |-> ip, kept |-> <<>>, now |-> clock,
                                   pc |-> "init"])
  /\ UNCHANGED <<STRIPE_SECRET_KEY, STRIPE_WEBHOOK_SECRET, schema, users, listings,
                 request, mailbox, clock, steps, attempts, history, call, response>>

\* lines 8-9: if ip not in attempts: attempts[ip] = []
limit_init(d) ==
  /\ inflight[d].pc = "init"
  /\ attempts' = [i \in DOMAIN attempts \cup {inflight[d].ip} |-> Record(i)]
  /\ inflight' = [inflight EXCEPT ![d].pc = "prune"]
  /\ UNCHANGED <<STRIPE_SECRET_KEY, STRIPE_WEBHOOK_SECRET, schema, users, listings,
                 request, mailbox, clock, steps, history, call, response>>

\* line 11, right-hand side: [t for t in attempts[ip] if now - t < window]
limit_prune(d, window) ==
  /\ inflight[d].pc = "prune"
  /\ inflight' = [inflight EXCEPT
                    ![d].kept = Prune(attempts[inflight[d].ip], inflight[d].now, window),
                    ![d].pc = "store"]
  /\ UNCHANGED <<STRIPE_SECRET_KEY, STRIPE_WEBHOOK_SECRET, schema, users, listings,
                 request, mailbox, clock, steps, attempts, history, call, response>>

\* line 11, assignment: attempts[ip] = ...
limit_store(d) ==
  /\ inflight[d].pc = "store"
  /\ attempts' = [attempts EXCEPT ![inflight[d].ip] = inflight[d].kept]
  /\ inflight' = [inflight EXCEPT ![d].pc = "check"]
  /\ UNCHANGED <<STRIPE_SECRET_KEY, STRIPE_WEBHOOK_SECRET, schema, users, listings,
                 request, mailbox, clock, steps, history, call, response>>

\* lines 13-14: if len(attempts[ip]) >= limit: return False
limit_check(d, limit) ==
  /\ inflight[d].pc = "check"
  /\ IF Denied(attempts[inflight[d].ip], limit)
     THEN Returns(d, FALSE)
     ELSE /\ inflight' = [inflight EXCEPT ![d].pc = "append"]
          /\ UNCHANGED <<history, call, response>>
  /\ UNCHANGED <<STRIPE_SECRET_KEY, STRIPE_WEBHOOK_SECRET, schema, users, listings,
                 request, mailbox, clock, steps, attempts>>

\* lines 16-17: attempts[ip].append(now); return True
limit_append(d) ==
  /\ inflight[d].pc = "append"
  /\ attempts' = [attempts EXCEPT ![inflight[d].ip] = Append(@, inflight[d].now)]
  /\ Returns(d, TRUE)
  /\ UNCHANGED <<STRIPE_SECRET_KEY, STRIPE_WEBHOOK_SECRET, schema, users, listings,
                 request, mailbox, clock, steps>>

NextRace ==
  \/ \E ip \in Ips : limit_enter(ip)
  \/ \E d \in DOMAIN inflight : limit_init(d)
  \/ \E d \in DOMAIN inflight : limit_prune(d, DEFAULT_WINDOW)
  \/ \E d \in DOMAIN inflight : limit_store(d)
  \/ \E d \in DOMAIN inflight : limit_check(d, DEFAULT_LIMIT)
  \/ \E d \in DOMAIN inflight : limit_append(d)

SpecRace == InitToken /\ [][NextRace]_vars

\* the calls of an identifier that returned True
AllowedOf(ip) ==
  LET Mine(h) == h.ip = ip /\ h.allowed
  IN  SelectSeq(history, Mine)

Quiet(ip) == \A d \in DOMAIN inflight : inflight[d].ip # ip

\* C15 as stated: however parallel calls for one identifier interleave, they
\* behave as if each ran alone: within one window no more calls return True
\* than the cap allows, and no attempt is lost (once no call for the
\* identifier is in progress its record holds one timestamp for every call
\* that returned True).
C15_LimiterIsAtomic ==
  \A ip \in Ips :
    /\ Len(AllowedOf(ip)) <= DEFAULT_LIMIT
    /\ Quiet(ip) => Len(Record(ip)) = Len(AllowedOf(ip))

\* a checkout of listing l that reaches Stripe while Stripe is unreachable
\* or rejects the request
CheckoutFails(l) ==
  /\ \/ \E e \in Emails : create_checkout_session_flat(l, e, FALSE)
     \/ \E d \in DOMAIN inflight :
          /\ inflight[d].pc = "seller"
          /\ inflight[d].listing_id = l
          /\ create_checkout_session_connect_seller(d, FALSE)
  /\ request'.sent

\* the seller lookup of the Connect backend would let the call through
Payable(l) == HasPayoutColumn /\ ~Unpayable(l)

\* the call just answered, made again while Stripe is reachable, is answered
\* with the redirect: at once by the flat backend; by the Connect backend
\* it passes the listing lookup again, and its seller is payable
RetrySucceeds ==
  \E e \in Emails :
    IF call.backend = "flat"
    THEN /\ create_checkout_session_flat(call.listing_id, e, TRUE)
         /\ response' = Response(200, "checkout_url")
    ELSE /\ create_checkout_session_connect(call.listing_id, e)
         /\ Len(inflight') > Len(inflight)
         /\ Payable(call.listing_id)

\* a thread is free to serve one more request
Room == Len(inflight) < MaxInFlight

\* every Connect checkout in flight whose seller is payable is answered with
\* the redirect when Stripe is reachable
InFlightSucceeds ==
  \A d \in DOMAIN inflight :
    (inflight[d].pc = "seller" /\ Payable(inflight[d].listing_id))
      => ENABLED (/\ create_checkout_session_connect_seller(d, TRUE)
                  /\ response' = Response(200, "checkout_url"))

StripeFailed ==
  /\ call.op = "create_checkout_session"
  /\ response = Response(500, "Stripe error")

\* C16 as stated: when Stripe is unreachable or rejects the request, the
\* checkout is answered 500 "Stripe error" without a redirect and users,
\* listings and mailbox stay as they were; after such a failure the same
\* call, made again while Stripe is reachable, succeeds.
C16_Original ==
  /\ [][(CheckoutStep /\ request'.sent /\ CheckoutFails(call'.listing_id))
          => response' = Response(500, "Stripe error") /\ StoreUnchanged]_vars
  /\ []((StripeFailed /\ Room) => ENABLED RetrySucceeds)

\* C16 as amended: the same, the retry succeeding when STRIPE_SECRET_KEY is
\* configured and the listing is still on sale.  Without a key the flat
\* backend still calls Stripe with an empty api_key (src/app.py:12-13,
\* 160-184): Stripe rejects every such call, each is answered 500 "Stripe
\* error" with nothing changed, and no retry succeeds until the process is
\* restarted with a key.  A Connect checkout whose listing was sold between
\* its two lookups and that Stripe failed is refused 400 when made again.
C16_ProcessorFailureIsScoped ==
  /\ [][(CheckoutStep /\ request'.sent /\ CheckoutFails(call'.listing_id))
          => response' = Response(500, "Stripe error") /\ StoreUnchanged]_vars
  /\ []((StripeFailed /\ Room /\ STRIPE_SECRET_KEY # "" /\ ~Sold(call.listing_id))
          => ENABLED RetrySucceeds)
  /\ []InFlightSucceeds
  /\ []((StripeFailed /\ STRIPE_SECRET_KEY = "")
          => call.backend = "flat" /\ ~ENABLED RetrySucceeds)
  /\ []((StripeFailed /\ Sold(call.listing_id))
          => call.backend = "connect" /\ ~ENABLED RetrySucceeds)

\* Stripe failed a checkout of the configured Connect backend and the listing
\* is still on sale
C16_Witness ==
  /\ StripeFailed
  /\ call.backend = "connect"
  /\ STRIPE_SECRET_KEY # ""
  /\ request.sent
  /\ ~listings[call.listing_id].sold

OtherKind(n) == n.payload.type # "checkout.session.completed"

\* C17: a correctly signed event of any kind other than "checkout completed"
\* is acknowledged with success and changes nothing, whatever listing it
\* names; and a step that takes a listing from LISTED to SOLD is the handling
\* of a "checkout completed" event.
C17_OtherEventsAreIgnored ==
  [][/\ (WebhookStep /\ CorrectlySigned(call'.notification)
           /\ OtherKind(call'.notification))
          => response' = Response(200, "success") /\ StoreUnchanged
     /\ (\E l \in ListingIds : ~listings[l].sold /\ listings'[l].sold)
          => WebhookStep /\ ~OtherKind(call'.notification)]_vars

\* an event of another kind that names a listing on sale was acknowledged
\* and the listing is still on sale
C17_Witness ==
  /\ Webhook
  /\ CorrectlySigned(call.notification)
  /\ OtherKind(call.notification)
  /\ \E l \in ListingIds :
       call.notification.payload.listing_id = str(l) /\ ~listings[l].sold
  /\ response = Response(200, "success")

(***************************************************************************)
(* The reset routes over time (src/forgot_password.py with src/token.py):  *)
(* accounts are registered, reset e-mails are requested, the clock runs    *)
(* past the expiry of the tokens, and reset-password is tried with every   *)
(* token a caller can present.                                             *)
(***************************************************************************)
\* tokens that fail for other reasons than a guessed key: one that names
\* the algorithm "H256" of the accepted list, which the library does not
\* implement, and a string that is not a token at all
OddTokens ==
  { [alg |-> a, exp |-> RESET_TOKEN_MINUTES * 60, key |-> RESET_TOKEN_SECRET,
     sub |-> u] : u \in Usernames, a \in {"H256", "malformed"} }

ResetTokens == PresentableTokens \cup OddTokens

\* e-mails are requested during the first instants only
request_reset(username, smtp_ok) ==
  /\ clock <= MaxIssueTick
  /\ forgot_password(username, smtp_ok)

\* the clock is followed tick by tick while e-mails are requested and again
\* around the expiry of the tokens, and jumps over the time in between
pass_time(d) ==
  /\ d = 1 => \/ clock < MaxIssueTick
              \/ clock >= TokenWindowTicks - 2 * TicksPerSecond
  /\ TickToken(d)

NextReset ==
  \/ \E u \in Usernames, p \in Passwords : register_flat(u, p)
  \/ \E d \in DOMAIN inflight : register_commit(d)
  \/ \E u \in Callers, ok \in BOOLEAN : request_reset(u, ok)
  \/ \E t \in ResetTokens, p \in Passwords : reset_password(t, p)
  \/ \E d \in TokenDeltas : pass_time(d)

SpecReset == InitToken /\ [][NextReset]_vars

ResetStep == call'.op = "reset_password"

\* the token is one the service issued and sent
Genuine(token) == \E m \in mailbox : m.token = token

\* its expiry instant has come
Expired(token) == token.exp * TicksPerSecond <= clock

\* C18: reset-password with a token that does not verify, whether it was
\* never issued (guessed key, algorithm "none" or "H256", not a token) or
\* was issued and has expired, gets one and the same answer, 400 "Invalid or
\* expired token", after the verification alone, and no account changes.
C18_InvalidIsUniform ==
  [][(ResetStep /\ (~Genuine(call'.token) \/ Expired(call'.token)))
       => /\ response' = Response(400, "Invalid or expired token")
          /\ steps' = <<"verify_token">>
          /\ StoreUnchanged]_vars

\* an expired token of a registered user was refused
C18_Witness ==
  /\ call.op = "reset_password"
  /\ Genuine(call.token)
  /\ Expired(call.token)
  /\ UserByName(call.token.sub) # 0
  /\ response = Response(400, "Invalid or expired token")

\* C19 as stated: a reset token authorizes one password change; when
\* reset-password has just succeeded with a token, a further reset-password
\* call presenting the same token does not change any account.
C19_TokenIsSingleUse ==
  [][(/\ call.op = "reset_password"
      /\ response = Response(200, "Password updated")
      /\ ResetStep
      /\ call'.token = call.token)
     => users' = users]_vars

(***************************************************************************)
(* Further properties of the rate limiter (checked under SpecRate)         *)
(***************************************************************************)
NonDecreasing(record) ==
  \A i \in 1..(Len(record) - 1) : record[i] <= record[i + 1]

\* what is left of a record when timestamps are dropped from its old end
IsSuffix(new, old) ==
  /\ Len(new) <= Len(old)
  /\ new = SubSeq(old, Len(old) - Len(new) + 1, Len(old))

RecordsAreBounded ==
  \A ip \in DOMAIN attempts :
    Len(attempts[ip]) <= DEFAULT_LIMIT /\ NonDecreasing(attempts[ip])

\* C20: with the limit fixed and a clock that never runs backwards, every
\* record holds at most `limit` timestamps in non-decreasing order; a call
\* that returns False adds no timestamp to its record; and a call leaves the
\* records of all other identifiers as they were.
C20_RecordInvariant ==
  /\ []RecordsAreBounded
  /\ [][RateStep =>
          LET h == history'[Len(history')]
          IN  /\ ~h.allowed => IsSuffix(attempts'[h.ip], Record(h.ip))
              /\ \A other \in Ips \ {h.ip} :
                   /\ other \in DOMAIN attempts' <=> other \in DOMAIN attempts
                   /\ other \in DOMAIN attempts => attempts'[other] = attempts[other]]_vars

\* a call was refused, its record is full, and another identifier has a
\* record of its own
C20_Witness ==
  /\ history # <<>>
  /\ LET h == history[Len(history)]
     IN  /\ ~h.allowed
         /\ Len(attempts[h.ip]) = DEFAULT_LIMIT
         /\ \E other \in DOMAIN attempts : other # h.ip /\ attempts[other] # <<>>

====
